---------------------------- MODULE Spec2Model ----------------------------
(***************************************************************************)
(* The event loop of src/main.rs: the closure handed to event_loop.run     *)
(* (lines 276-388) with the state it captures, and the window, the         *)
(* swapchain and the GPU queue as far as the closure observes them.        *)
(*                                                                         *)
(* Every handler of the closure is one action.  What the platform returns  *)
(* to a handler (the result of Swapchain::recreate, of acquire_next_image, *)
(* of command recording, of then_signal_fence_and_flush) is an input the   *)
(* action draws with \E.                                                   *)
(***************************************************************************)
EXTENDS Integers, Sequences, FiniteSets, TLC

(***************************************************************************)
(* Bounds of the model.                                                    *)
(***************************************************************************)
\* window widths range over 0..MaxWidth
MaxWidth == 2
\* cursor coordinates range over 0..MaxPos
MaxPos == 1
\* a swapchain holds 1..MaxImages images
MaxImages == 2

(***************************************************************************)
(* Width of the f32 significand (IEEE 754 binary32: 24 bits).              *)
(***************************************************************************)
F32Bits == 24

\* The height plays the part of the width in every handler: it is 0 (the
\* minimized window) or 1, and only the width is given a range.
Heights == {0, 1}
Sizes == (0..MaxWidth) \X Heights
NonZeroSizes == {d \in Sizes : d[1] > 0 /\ d[2] > 0}
Positions == (0..MaxPos) \X Heights

VARIABLES
    inner_size,          \* surface.window().inner_size(): <<width, height>>
    resized_pending,     \* a WindowEvent::Resized is waiting to be delivered
    control_flow,        \* *control_flow: "Poll" or "Exit"
    process,             \* "running", "destroyed" (loop ended), "panicked"
    recreate_swapchain,  \* let mut recreate_swapchain
    swapchain,           \* let mut swapchain: [id, image_extent, image_count]
    framebuffers,        \* let mut framebuffers: one per image
    viewport,            \* viewport.dimensions
    previous_frame_end,  \* let mut previous_frame_end: Option<Box<dyn GpuFuture>>
    mouse_pos,           \* let mut mouse_pos: [f64; 2]
    last_cursor,         \* the last CursorMoved handled: its position and the size it read
    frame_pc,            \* push constants of the last frame recorded since then
    stale_acquire,       \* the last acquire_next_image reported OutOfDate and
                         \* no swapchain has been created since
    last_tick            \* what the step just taken did, if it was a redraw tick

vars == <<inner_size, resized_pending, control_flow, process, recreate_swapchain,
          swapchain, framebuffers, viewport, previous_frame_end, mouse_pos,
          last_cursor, frame_pc, stale_acquire, last_tick>>

(***************************************************************************)
(* Floating point.  An f64 quotient of two small integers is named by the  *)
(* reduced fraction it is the correctly rounded value of: [n, d] with      *)
(* d > 0, [1, 0] for +inf (x/0, x > 0) and [0, 0] for NaN (0/0).           *)
(***************************************************************************)
RECURSIVE Gcd(_, _)
Gcd(a, b) == IF b = 0 THEN a ELSE Gcd(b, a % b)

\* position.x / (dimensions.width as f64), position.x >= 0
F64Div(p, q) ==
    IF q = 0
    THEN [n |-> IF p = 0 THEN 0 ELSE 1, d |-> 0]
    ELSE LET g == Gcd(p, q) IN [n |-> p \div g, d |-> q \div g]

F64Zero == [n |-> 0, d |-> 1]

RECURSIVE Pow2(_)
Pow2(k) == IF k = 0 THEN 1 ELSE 2 * Pow2(k - 1)

(***************************************************************************)
(* `as f32`: the nearest binary32 value, ties to even.  A finite nonzero   *)
(* result is m * 2^(-e) with 2^23 <= m < 2^24.  (The f64 operand is within *)
(* 2^-53 of the fraction that names it, far closer than the fraction is to *)
(* any binary32 rounding boundary it does not lie on, so rounding the      *)
(* fraction gives the f32 the cast gives.)                                 *)
(***************************************************************************)
AsF32(r) ==
    IF r.d = 0 THEN [cls |-> IF r.n = 0 THEN "nan" ELSE "inf", m |-> 0, e |-> 0]
    ELSE IF r.n = 0 THEN [cls |-> "zero", m |-> 0, e |-> 0]
    ELSE LET lo == Pow2(F32Bits - 1)
             k  == CHOOSE k \in 0..(F32Bits + 2) :
                      /\ (r.n * Pow2(k)) \div r.d >= lo
                      /\ (r.n * Pow2(k)) \div r.d < 2 * lo
             q  == (r.n * Pow2(k)) \div r.d
             rm == (r.n * Pow2(k)) % r.d
             up == 2 * rm > r.d \/ (2 * rm = r.d /\ q % 2 = 1)
             m  == IF up THEN q + 1 ELSE q
         IN IF m = 2 * lo
            THEN [cls |-> "num", m |-> lo, e |-> k - 1]
            ELSE [cls |-> "num", m |-> m, e |-> k]


(***************************************************************************)
(* The pieces of the closure, in source order.                             *)
(***************************************************************************)

\* a slip: both coordinates divided by the width
NormalizeMouseByWidth(position, dimensions) ==
    <<F64Div(position[1], dimensions[1]), F64Div(position[2], dimensions[1])>>

\* CursorMoved (lines 281-282): each coordinate divided by the size read now
NormalizeMouse(position, dimensions) ==
    <<F64Div(position[1], dimensions[1]), F64Div(position[2], dimensions[2])>>

\* a slip: the close handler asks the loop to wait instead of ending it
ControlFlowOnCloseWait == "Wait"

\* CloseRequested (line 288)
ControlFlowOnClose == "Exit"

\* Resized (line 294)
FlagOnResized == TRUE

\* a slip: && for ||
IsZeroSizeBoth(dimensions) == dimensions[1] = 0 /\ dimensions[2] = 0

\* line 298: the minimized window
IsZeroSize(dimensions) == dimensions[1] = 0 \/ dimensions[2] = 0

\* a slip: ..swapchain.create_info() without the new image_extent
RecreateSameExtent(sc, dimensions, image_count) ==
    [image_extent |-> sc.image_extent, image_count |-> image_count]

\* lines 303-306: swapchain.recreate with image_extent = dimensions; the
\* platform decides how many images the new swapchain holds
Recreate(sc, dimensions, image_count) ==
    [image_extent |-> dimensions, image_count |-> image_count]

\* a framebuffer built on an image of a swapchain that has been replaced
Retire(fbs) == [i \in DOMAIN fbs |-> [fbs[i] EXCEPT !.retired = TRUE]]

\* lines 307-309: what the handler does with the result of recreate
RecreateArm(res) ==
    CASE res = "ok" -> "continue"
      [] res = "unsupported" -> "return"
      [] OTHER -> "panic"

\* lines 391-413: one framebuffer per image, the viewport from images[0]
window_size_dependent_setup(sc) ==
    [framebuffers |-> [i \in 1..sc.image_count |->
                         [image |-> i - 1, extent |-> sc.image_extent,
                          retired |-> FALSE]],
     viewport |-> sc.image_extent]

\* a slip: the framebuffers are not rebuilt from the new images
AfterRecreateKeepsFramebuffers(s, new_swapchain) ==
    [s EXCEPT !.swapchain = new_swapchain,
              !.viewport = new_swapchain.image_extent,
              !.recreate_swapchain = FALSE]

\* lines 311-314: the loop state after a successful recreate
AfterRecreate(s, new_swapchain) ==
    LET setup == window_size_dependent_setup(new_swapchain)
    IN [s EXCEPT !.swapchain = new_swapchain,
                 !.framebuffers = setup.framebuffers,
                 !.viewport = setup.viewport,
                 !.recreate_swapchain = FALSE]

\* a slip: a stale acquisition is taken for an acquired image
AcquireArmIgnoresStale(res) ==
    CASE res = "ok" -> "continue"
      [] res = "out_of_date" -> "continue"
      [] OTHER -> "panic"

\* lines 318-325: what the handler does with the result of acquire_next_image
AcquireArm(res) ==
    CASE res = "ok" -> "continue"
      [] res = "out_of_date" -> "flag_and_return"
      [] OTHER -> "panic"

\* lines 327-329
FlagAfterAcquire(flag, suboptimal) == IF suboptimal THEN TRUE ELSE flag

\* lines 338-342 (the time field is the wall clock and is left out)
PushConstants(mouse) == [x |-> AsF32(mouse[1]), y |-> AsF32(mouse[2])]

\* line 349: framebuffers[image_num] panics out of range
IndexOk(fbs, image_num) == image_num + 1 \in DOMAIN fbs

\* lines 368-369: then_execute(..).unwrap() panics unless the image drawn to
\* is the image acquire_future gives access to
ExecuteOk(fbs, image_num) ==
    /\ ~fbs[image_num + 1].retired
    /\ fbs[image_num + 1].image = image_num

PfeNone == "none"
\* sync::now(logical_device.clone()).boxed()
PfeNow == "now"
\* the fence signalled after the frame just submitted and presented
PfeFence == "fence"

\* a slip: the OutOfDate arm does not set the recreate flag
FlushArmStaleNotFlagged(res, flag) ==
    CASE res = "ok" ->
           [recreate_swapchain |-> flag, previous_frame_end |-> "fence"]
      [] OTHER ->
           [recreate_swapchain |-> flag, previous_frame_end |-> "now"]

\* a slip: every error arm sets the recreate flag
FlushArmErrorFlagged(res, flag) ==
    CASE res = "ok" ->
           [recreate_swapchain |-> flag, previous_frame_end |-> "fence"]
      [] OTHER ->
           [recreate_swapchain |-> TRUE, previous_frame_end |-> "now"]

\* a slip: the last arm logs the error and stores no marker
FlushArmErrorStoresNothing(res, flag) ==
    CASE res = "ok" ->
           [recreate_swapchain |-> flag, previous_frame_end |-> "fence"]
      [] res = "out_of_date" ->
           [recreate_swapchain |-> TRUE, previous_frame_end |-> "now"]
      [] OTHER ->
           [recreate_swapchain |-> flag, previous_frame_end |-> "none"]

\* lines 373-385: the three arms of `match future`
FlushArm(res, flag) ==
    CASE res = "ok" ->
           [recreate_swapchain |-> flag, previous_frame_end |-> PfeFence]
      [] res = "out_of_date" ->
           [recreate_swapchain |-> TRUE, previous_frame_end |-> PfeNow]
      [] OTHER ->
           [recreate_swapchain |-> flag, previous_frame_end |-> PfeNow]

FlushOutcome(res) ==
    CASE res = "ok" -> "flushed"
      [] res = "out_of_date" -> "flush_out_of_date"
      [] OTHER -> "flush_error"

(***************************************************************************)
(* What the platform may return to one redraw tick.                        *)
(***************************************************************************)
RecreateResults ==
    [res : {"ok"}, image_count : 1..MaxImages]
      \cup [res : {"unsupported", "error"}, image_count : {1}]
AcquireResults(sc) ==
    [res : {"ok"}, image_num : 0..(sc.image_count - 1), suboptimal : BOOLEAN]
      \cup [res : {"out_of_date", "error"}, image_num : {0}, suboptimal : {FALSE}]
FlushResults == {"ok", "out_of_date", "error"}

\* last_tick when the step just taken was not a redraw tick
NoTick ==
    [outcome |-> "none", extent_before |-> <<0, 0>>, after_stale |-> FALSE,
     recreate_res |-> "none", acquire_res |-> "none", suboptimal |-> FALSE,
     image_num |-> 0, records |-> 0, waited |-> <<>>, executes |-> 0,
     presents |-> 0, flush_res |-> "none"]

(***************************************************************************)
(* RedrawEventsCleared, lines 296-386, in the stages the handler goes      *)
(* through.  Each stage takes the loop state s and what the platform       *)
(* returns; s.tick.outcome = "running" while the handler has not returned. *)
(***************************************************************************)
Return(s, outcome) == [s EXCEPT !.tick.outcome = outcome]
Panic(s, outcome) == [s EXCEPT !.tick.outcome = outcome, !.process = "panicked"]
Running(s) == s.tick.outcome = "running"

\* lines 297-301
TickStart(s, dimensions) ==
    IF IsZeroSize(dimensions) THEN Return(s, "zero_size")
    ELSE IF s.previous_frame_end = PfeNone THEN Panic(s, "unwrap_none")
    ELSE s

\* lines 302-315
TickRecreate(s, dimensions, rec) ==
    LET t == [s EXCEPT !.tick.recreate_res = rec.res]
    IN CASE RecreateArm(rec.res) = "continue" ->
              AfterRecreate([t EXCEPT !.framebuffers = Retire(s.framebuffers),
                                      !.stale_acquire = FALSE],
                            Recreate(s.swapchain, dimensions, rec.image_count))
         [] RecreateArm(rec.res) = "return" -> Return(t, "unsupported")
         [] OTHER -> Panic(t, "recreate_error")

\* lines 317-329
TickAcquire(s, acq) ==
    LET t == [s EXCEPT !.tick.acquire_res = acq.res,
                       !.tick.suboptimal = acq.suboptimal]
    IN CASE AcquireArm(acq.res) = "continue" ->
              [t EXCEPT !.tick.image_num = acq.image_num,
                        !.stale_acquire = FALSE,
                        !.recreate_swapchain =
                            FlagAfterAcquire(s.recreate_swapchain, acq.suboptimal)]
         [] AcquireArm(acq.res) = "flag_and_return" ->
              Return([t EXCEPT !.recreate_swapchain = TRUE,
                               !.stale_acquire = acq.res = "out_of_date"],
                     "out_of_date")
         [] OTHER -> Panic(t, "acquire_error")

\* lines 331-362: one command buffer; a failed allocation or build panics
TickRecord(s, mouse, record_ok) ==
    IF ~record_ok THEN Panic(s, "record_error")
    ELSE IF ~IndexOk(s.framebuffers, s.tick.image_num)
    THEN Panic(s, "index_out_of_bounds")
    ELSE [s EXCEPT !.tick.records = 1,
                   !.frame_pc = [fresh |-> TRUE, pc |-> PushConstants(mouse)]]

\* a slip: the chain starts from sync::now instead of previous_frame_end
TickSubmitFromNow(s, fl) ==
    LET waited == <<"now", <<"acquired", s.tick.image_num>>>>
    IN IF ~(~s.framebuffers[s.tick.image_num + 1].retired)
       THEN [s EXCEPT !.tick.outcome = "execute_error", !.process = "panicked",
                      !.tick.waited = waited]
       ELSE [s EXCEPT !.tick.waited = waited,
                      !.tick.flush_res = fl,
                      !.tick.executes = 1,
                      !.tick.presents = IF fl = "ok" THEN 1 ELSE 0,
                      !.recreate_swapchain =
                          IF fl = "out_of_date" THEN TRUE ELSE s.recreate_swapchain,
                      !.previous_frame_end = IF fl = "ok" THEN "fence" ELSE "now",
                      !.tick.outcome =
                          CASE fl = "ok" -> "flushed"
                            [] fl = "out_of_date" -> "flush_out_of_date"
                            [] OTHER -> "flush_error"]

\* lines 364-385: previous_frame_end is taken, joined with acquire_future,
\* and the chain is flushed once
TickSubmit(s, fl) ==
    LET waited == <<s.previous_frame_end, <<"acquired", s.tick.image_num>>>>
    IN IF ~ExecuteOk(s.framebuffers, s.tick.image_num)
       THEN Panic([s EXCEPT !.previous_frame_end = PfeNone,
                            !.tick.waited = waited], "execute_error")
       ELSE LET arm == FlushArm(fl, s.recreate_swapchain)
            IN Return([s EXCEPT !.tick.waited = waited,
                                !.tick.flush_res = fl,
                                !.tick.executes = 1,
                                !.tick.presents = IF fl = "ok" THEN 1 ELSE 0,
                                !.recreate_swapchain = arm.recreate_swapchain,
                                !.previous_frame_end = arm.previous_frame_end],
                      FlushOutcome(fl))

(***************************************************************************)
(* The state machine.                                                      *)
(***************************************************************************)
NoPc == [fresh |-> FALSE, pc |-> PushConstants(<<F64Zero, F64Zero>>)]

\* lines 108-157 and 262-274: the state the closure captures.  The first
\* swapchain has the window's size (line 146), which Swapchain::new accepts
\* only when it is not zero.
Init ==
    /\ inner_size \in NonZeroSizes
    /\ resized_pending = FALSE
    /\ control_flow = "Poll"
    /\ process = "running"
    /\ recreate_swapchain = FALSE
    /\ \E n \in 1..MaxImages :
         swapchain = [image_extent |-> inner_size, image_count |-> n]
    /\ framebuffers = window_size_dependent_setup(swapchain).framebuffers
    /\ viewport = window_size_dependent_setup(swapchain).viewport
    /\ previous_frame_end = PfeNow
    /\ mouse_pos = <<F64Zero, F64Zero>>
    /\ last_cursor = [seen |-> FALSE, position |-> <<0, 0>>, dimensions |-> <<0, 0>>]
    /\ frame_pc = NoPc
    /\ stale_acquire = FALSE
    /\ last_tick = NoTick

\* the platform resizes (or minimizes) the window and queues a Resized event
WindowResize(dimensions) ==
    /\ process = "running"
    /\ dimensions # inner_size
    /\ inner_size' = dimensions
    /\ resized_pending' = TRUE
    /\ last_tick' = NoTick
    /\ UNCHANGED <<control_flow, process, recreate_swapchain, swapchain,
                   framebuffers, viewport, previous_frame_end, mouse_pos,
                   last_cursor, frame_pc, stale_acquire>>

\* lines 277-283
CursorMoved(position) ==
    /\ process = "running"
    /\ mouse_pos' = NormalizeMouse(position, inner_size)
    /\ last_cursor' = [seen |-> TRUE, position |-> position,
                       dimensions |-> inner_size]
    /\ frame_pc' = NoPc
    /\ last_tick' = NoTick
    /\ UNCHANGED <<inner_size, resized_pending, control_flow, process,
                   recreate_swapchain, swapchain, framebuffers, viewport,
                   previous_frame_end, stale_acquire>>

\* lines 284-289
CloseRequested ==
    /\ process = "running"
    /\ control_flow' = ControlFlowOnClose
    /\ last_tick' = NoTick
    /\ UNCHANGED <<inner_size, resized_pending, process, recreate_swapchain,
                   swapchain, framebuffers, viewport, previous_frame_end,
                   mouse_pos, last_cursor, frame_pc, stale_acquire>>

\* lines 290-295
Resized ==
    /\ process = "running"
    /\ resized_pending
    /\ resized_pending' = FALSE
    /\ recreate_swapchain' = FlagOnResized
    /\ last_tick' = NoTick
    /\ UNCHANGED <<inner_size, control_flow, process, swapchain, framebuffers,
                   viewport, previous_frame_end, mouse_pos, last_cursor,
                   frame_pc, stale_acquire>>

\* the loop state a redraw tick starts from
LoopState ==
    [process |-> process, recreate_swapchain |-> recreate_swapchain,
     swapchain |-> swapchain, framebuffers |-> framebuffers,
     viewport |-> viewport, previous_frame_end |-> previous_frame_end,
     frame_pc |-> frame_pc, stale_acquire |-> stale_acquire,
     tick |-> [NoTick EXCEPT !.outcome = "running",
                             !.extent_before = swapchain.image_extent,
                             !.after_stale = stale_acquire]]

\* the loop state when the handler returns (or panics)
TickEnds(s) ==
    /\ process' = s.process
    /\ recreate_swapchain' = s.recreate_swapchain
    /\ swapchain' = s.swapchain
    /\ framebuffers' = s.framebuffers
    /\ viewport' = s.viewport
    /\ previous_frame_end' = s.previous_frame_end
    /\ frame_pc' = s.frame_pc
    /\ stale_acquire' = s.stale_acquire
    /\ last_tick' = s.tick

\* lines 364-385, with the result of the flush
SubmitStage(s) ==
    \E fl \in FlushResults : TickEnds(TickSubmit(s, fl))

\* lines 331-362, with the result of building the command buffer
RecordStage(s) ==
    \E record_ok \in BOOLEAN :
        LET t == TickRecord(s, mouse_pos, record_ok)
        IN IF Running(t) THEN SubmitStage(t) ELSE TickEnds(t)

\* lines 317-329, with the result of acquire_next_image
AcquireStage(s) ==
    \E acq \in AcquireResults(s.swapchain) :
        LET t == TickAcquire(s, acq)
        IN IF Running(t) THEN RecordStage(t) ELSE TickEnds(t)

\* lines 302-315, with the result of swapchain.recreate when it is called
RecreateStage(s) ==
    IF s.recreate_swapchain
    THEN \E rec \in RecreateResults :
            LET t == TickRecreate(s, inner_size, rec)
            IN IF Running(t) THEN AcquireStage(t) ELSE TickEnds(t)
    ELSE AcquireStage(s)

\* lines 296-386
RedrawEventsCleared ==
    /\ process = "running"
    /\ LET s == TickStart(LoopState, inner_size)
       IN IF Running(s) THEN RecreateStage(s) ELSE TickEnds(s)
    /\ UNCHANGED <<inner_size, resized_pending, control_flow, mouse_pos,
                   last_cursor>>

\* line 276: event_loop.run stops delivering events once control_flow is Exit
LoopDestroyed ==
    /\ process = "running"
    /\ control_flow = "Exit"
    /\ process' = "destroyed"
    /\ last_tick' = NoTick
    /\ UNCHANGED <<inner_size, resized_pending, control_flow, recreate_swapchain,
                   swapchain, framebuffers, viewport, previous_frame_end,
                   mouse_pos, last_cursor, frame_pc, stale_acquire>>

\* line 387: every other event (NewEvents, MainEventsCleared, ...) is ignored;
\* the loop delivers some between any two redraw ticks
OtherEvent ==
    /\ process = "running"
    /\ last_tick' = NoTick
    /\ UNCHANGED <<inner_size, resized_pending, control_flow, process,
                   recreate_swapchain, swapchain, framebuffers, viewport,
                   previous_frame_end, mouse_pos, last_cursor, frame_pc,
                   stale_acquire>>

Next ==
    \/ \E d \in Sizes : WindowResize(d)
    \/ \E p \in Positions : CursorMoved(p)
    \/ CloseRequested
    \/ Resized
    \/ RedrawEventsCleared
    \/ OtherEvent
    \/ LoopDestroyed

Spec == Init /\ [][Next]_vars

(***************************************************************************)
(* The loop with the cursor at rest, for the properties of resizing over   *)
(* whole runs.  (CursorMoved writes mouse_pos, last_cursor and frame_pc,   *)
(* which no guard reads and which reach nothing but the push constants.)   *)
(* In ControlFlow::Poll, the default, the loop keeps iterating: every      *)
(* iteration delivers the queued window events and then                    *)
(* RedrawEventsCleared.                                                    *)
(***************************************************************************)
LiveNext ==
    \/ \E d \in Sizes : WindowResize(d)
    \/ CloseRequested
    \/ Resized
    \/ RedrawEventsCleared
    \/ OtherEvent
    \/ LoopDestroyed

LiveSpec ==
    /\ Init
    /\ [][LiveNext]_vars
    /\ WF_vars(RedrawEventsCleared)
    /\ WF_vars(Resized)

(***************************************************************************)
(* Vocabulary of the properties.                                           *)
(***************************************************************************)
\* the step just taken was a redraw tick
Ticked == last_tick.outcome # "none"
\* the window had a nonzero size when that tick read it
NonZero(d) == d[1] > 0 /\ d[2] > 0
\* the tick flushed a submit/present chain
FlushOutcomes == {"flushed", "flush_out_of_date", "flush_error"}
\* every framebuffer and the viewport have size d
RenderSize(d) ==
    /\ viewport = d
    /\ \A i \in DOMAIN framebuffers : framebuffers[i].extent = d

(***************************************************************************)
(* C1.  As stated: every redraw tick at a nonzero window size ends with    *)
(* exactly one execute+present submission, whatever recreation and         *)
(* acquisition return.                                                     *)
(***************************************************************************)
C1_ExactlyOneFrameEveryTick ==
    (Ticked /\ NonZero(inner_size)) => last_tick.executes = 1

(***************************************************************************)
(* C1 as amended: a redraw tick at a nonzero size submits at most one      *)
(* frame.  It submits none when recreation reports the size unsupported or *)
(* fails, or when acquisition reports the swapchain stale or fails; it     *)
(* submits exactly one when acquisition returned an image and the process  *)
(* did not abort.                                                          *)
(***************************************************************************)
C1_AtMostOneFrame ==
    (Ticked /\ NonZero(inner_size)) =>
        /\ last_tick.executes \in {0, 1}
        /\ last_tick.presents <= last_tick.executes
        /\ last_tick.recreate_res \in {"unsupported", "error"} =>
               last_tick.executes = 0 /\ last_tick.acquire_res = "none"
        /\ last_tick.acquire_res \in {"out_of_date", "error"} =>
               last_tick.executes = 0
        /\ (last_tick.acquire_res = "ok" /\ process = "running") =>
               last_tick.executes = 1

C1_Witness ==
    /\ Ticked /\ NonZero(inner_size)
    /\ last_tick.recreate_res = "ok"
    /\ last_tick.acquire_res = "ok"
    /\ last_tick.executes = 1
    /\ last_tick.presents = 1

(***************************************************************************)
(* C2.  A redraw tick at a window size with zero width or zero height      *)
(* returns at once: it calls neither recreate nor acquire, records and     *)
(* submits nothing, does not abort, and leaves the recreate flag, the      *)
(* swapchain, the framebuffers, the viewport and previous_frame_end as     *)
(* they were.                                                              *)
(***************************************************************************)
C2_ZeroSizeTickDoesNothing ==
    [][(last_tick'.outcome # "none" /\ (inner_size[1] = 0 \/ inner_size[2] = 0)) =>
          /\ last_tick'.outcome = "zero_size"
          /\ last_tick'.recreate_res = "none"
          /\ last_tick'.acquire_res = "none"
          /\ last_tick'.records = 0
          /\ last_tick'.executes = 0
          /\ last_tick'.presents = 0
          /\ process' = "running"
          /\ UNCHANGED <<recreate_swapchain, swapchain, framebuffers, viewport,
                         previous_frame_end>>]_vars

C2_Witness ==
    /\ last_tick.outcome = "zero_size"
    /\ recreate_swapchain
    /\ inner_size[1] = 0 \/ inner_size[2] = 0

(***************************************************************************)
(* C3.  As stated: no redraw tick delivered after the close event has been *)
(* handled acquires an image or submits a frame.                           *)
(***************************************************************************)
C3_NoFrameAfterClose ==
    (Ticked /\ control_flow = "Exit") =>
        last_tick.acquire_res = "none" /\ last_tick.executes = 0

(***************************************************************************)
(* C3 as amended: handling the close event sets the control flow to Exit   *)
(* and touches nothing else; no handler resets it; the loop ends only      *)
(* after that, and once it has ended no handler runs.  (The redraw handler *)
(* does not look at the control flow.)                                     *)
(***************************************************************************)
C3_CloseSetsExit ==
    [][/\ control_flow' # control_flow =>
            /\ control_flow' = "Exit"
            /\ last_tick' = NoTick
            /\ UNCHANGED <<process, recreate_swapchain, swapchain, framebuffers,
                           viewport, previous_frame_end, mouse_pos, frame_pc>>
       /\ control_flow = "Exit" => control_flow' = "Exit"
       /\ process' = "destroyed" => control_flow = "Exit"
       /\ process = "destroyed" => UNCHANGED vars]_vars

C3_Witness == control_flow = "Exit" /\ process = "destroyed"

(***************************************************************************)
(* C5.  As stated: a cursor move to (px, py) in a window of size (W, H)    *)
(* yields the mouse input (px/W, py/H), each component within [0,1], and   *)
(* the next recorded frame's push constants carry exactly that value.      *)
(***************************************************************************)
\* the f64 r is exactly p/q
IsQuotient(r, p, q) == q > 0 /\ r.d > 0 /\ r.n * q = p * r.d
\* the f32 f is exactly p/q
IsExactF32(f, p, q) ==
    /\ q > 0
    /\ IF p = 0 THEN f.cls = "zero"
       ELSE f.cls = "num" /\ f.m * q = p * Pow2(f.e)
\* the f64 r lies within [0,1]
InUnitInterval(r) == r.d > 0 /\ 0 <= r.n /\ r.n <= r.d

IsF64Quotient(r, p, q) ==
    IF q = 0 THEN r.d = 0 /\ (r.n = 0 <=> p = 0)
    ELSE IsQuotient(r, p, q)
\* the distance from x to y
Dist(x, y) == IF x >= y THEN x - y ELSE y - x
\* the f32 f is p / q rounded to nearest
IsNearestF32(f, p, q) ==
    IF q = 0 THEN f.cls = (IF p = 0 THEN "nan" ELSE "inf")
    ELSE IF p = 0 THEN f.cls = "zero"
    ELSE /\ f.cls = "num"
         /\ Pow2(F32Bits - 1) <= f.m /\ f.m < Pow2(F32Bits)
         /\ 2 * Dist(f.m * q, p * Pow2(f.e)) <= q

C6_SurfaceStateMachine ==
    [][/\ (resized_pending /\ ~resized_pending') => recreate_swapchain'
       /\ last_tick'.acquire_res = "out_of_date" =>
            recreate_swapchain' /\ process' = "running"
       /\ last_tick'.flush_res = "out_of_date" =>
            recreate_swapchain' /\ process' = "running"
       /\ (~recreate_swapchain /\ recreate_swapchain') =>
            \/ resized_pending /\ ~resized_pending'
            \/ last_tick'.acquire_res = "out_of_date"
            \/ last_tick'.flush_res = "out_of_date"
            \/ last_tick'.acquire_res = "ok" /\ last_tick'.suboptimal
       /\ (recreate_swapchain /\ ~recreate_swapchain') =>
            /\ last_tick'.recreate_res = "ok"
            /\ swapchain'.image_extent = inner_size
       /\ last_tick'.recreate_res = "unsupported" =>
            /\ recreate_swapchain /\ recreate_swapchain'
            /\ last_tick'.acquire_res = "none"
            /\ last_tick'.executes = 0
            /\ process' = "running"
            /\ UNCHANGED <<swapchain, framebuffers, viewport>>]_vars

C6_Witness ==
    /\ last_tick.recreate_res = "unsupported"
    /\ recreate_swapchain
    /\ process = "running"

(***************************************************************************)
(* C7.  The tick whose acquisition reports the swapchain stale sets the    *)
(* recreate flag, submits nothing and does not abort, and the flag stays   *)
(* set until a swapchain is recreated.  The next tick at a nonzero size    *)
(* calls recreate before it acquires; when recreate succeeds, an image is  *)
(* acquired and the command buffer is built, that tick submits exactly one *)
(* frame, without aborting, into a framebuffer built from the recreated    *)
(* swapchain's images: the image index is within the framebuffer list and  *)
(* the framebuffer has the size of the new swapchain, the window's size.   *)
(***************************************************************************)
C7_StaleAcquireThenRecreate ==
    /\ last_tick.acquire_res = "out_of_date" =>
         /\ recreate_swapchain
         /\ last_tick.executes = 0
         /\ process = "running"
    /\ stale_acquire => recreate_swapchain
    /\ (last_tick.after_stale /\ Ticked /\ NonZero(inner_size)) =>
         /\ last_tick.recreate_res # "none"
         /\ last_tick.acquire_res # "none" => last_tick.recreate_res = "ok"
         /\ (last_tick.recreate_res = "ok" /\ last_tick.acquire_res = "ok"
             /\ last_tick.records = 1) =>
               /\ last_tick.executes = 1
               /\ process = "running"
               /\ last_tick.image_num + 1 \in DOMAIN framebuffers
               /\ ~framebuffers[last_tick.image_num + 1].retired
               /\ framebuffers[last_tick.image_num + 1].image = last_tick.image_num
               /\ framebuffers[last_tick.image_num + 1].extent = swapchain.image_extent
               /\ swapchain.image_extent = inner_size
               /\ Len(framebuffers) = swapchain.image_count

C7_Witness ==
    /\ last_tick.after_stale
    /\ last_tick.recreate_res = "ok"
    /\ last_tick.outcome = "flushed"
    /\ last_tick.image_num = 1
    /\ last_tick.extent_before # swapchain.image_extent

(***************************************************************************)
(* C8.  A failure reported when the submit/present chain is flushed never  *)
(* aborts the process.  When the flush reports the swapchain stale, the    *)
(* recreate flag is set and previous_frame_end is an already complete      *)
(* marker; on any other flush error previous_frame_end is likewise an      *)
(* already complete marker and the recreate flag is what it was when the   *)
(* chain was flushed (set only by a suboptimal acquisition in that tick).  *)
(***************************************************************************)
C8_FlushFailureIsAbsorbed ==
    /\ last_tick.flush_res # "none" => process = "running"
    /\ last_tick.flush_res = "out_of_date" =>
         recreate_swapchain /\ previous_frame_end = "now"
    /\ last_tick.flush_res = "error" =>
         /\ previous_frame_end = "now"
         /\ recreate_swapchain = last_tick.suboptimal
    /\ last_tick.flush_res = "ok" =>
         /\ previous_frame_end = "fence"
         /\ recreate_swapchain = last_tick.suboptimal

C8_Witness ==
    /\ last_tick.flush_res = "error"
    /\ ~recreate_swapchain
    /\ process = "running"

(***************************************************************************)
(* C9.  Every redraw tick records at most one command buffer, submits it   *)
(* at most once and presents its image at most once, and only a recorded   *)
(* command buffer is submitted: no frame is left over for a later tick.    *)
(* The submission is chained after the previous_frame_end marker the       *)
(* preceding tick left and after the acquired signal of the image drawn    *)
(* to.                                                                     *)
(***************************************************************************)
C9_OneFrameInOrder ==
    [][last_tick'.outcome # "none" =>
          /\ last_tick'.records \in {0, 1}
          /\ last_tick'.executes \in {0, 1}
          /\ last_tick'.executes <= last_tick'.records
          /\ last_tick'.presents <= last_tick'.executes
          /\ (last_tick'.records = 1 /\ process' = "running") =>
                last_tick'.executes = 1
          /\ last_tick'.executes = 1 =>
                /\ last_tick'.acquire_res = "ok"
                /\ last_tick'.waited =
                      <<previous_frame_end, <<"acquired", last_tick'.image_num>>>>
          /\ last_tick'.executes = 0 => last_tick'.flush_res = "none"]_vars

C9_Witness ==
    /\ last_tick.outcome = "flushed"
    /\ last_tick.waited = <<"fence", <<"acquired", 1>>>>
    /\ last_tick.presents = 1

(***************************************************************************)
(* C10.  While the loop runs previous_frame_end is Some, so the unwraps at *)
(* the start of a redraw tick never fail.  A tick that returns early       *)
(* (zero size, unsupported size, stale acquisition) has not taken the      *)
(* marker out; a tick that flushed the chain has stored a marker again.    *)
(***************************************************************************)
C10_PreviousFrameEndIsSome ==
    /\ process = "running" => previous_frame_end # "none"
    /\ last_tick.outcome # "unwrap_none"
    /\ last_tick.outcome \in {"zero_size", "unsupported", "out_of_date"} =>
         last_tick.waited = <<>>
    /\ last_tick.outcome \in FlushOutcomes =>
         /\ last_tick.waited # <<>>
         /\ previous_frame_end \in {"now", "fence"}

C10_Witness ==
    /\ last_tick.outcome = "flush_error"
    /\ last_tick.waited[1] = "fence"
    /\ previous_frame_end = "now"

(***************************************************************************)
(* C4.  As stated: when the window has been resized and stays at a nonzero *)
(* size, the framebuffers and the viewport eventually have that size,      *)
(* given that redraw ticks keep occurring (the loop neither ends nor       *)
(* aborts).                                                                *)
(***************************************************************************)
C4_EventuallyResized ==
    \A d \in NonZeroSizes :
        ([](process = "running") /\ <>[](inner_size = d)) => <>RenderSize(d)

(***************************************************************************)
(* C4 as amended: when the window has been resized and stays at a nonzero  *)
(* size, the framebuffers and the viewport eventually have that size and   *)
(* keep it, given that redraw ticks keep occurring and that, again and     *)
(* again, one of them is not turned back by swapchain recreation reporting *)
(* the size unsupported.                                                   *)
(***************************************************************************)
C4_EventuallyResizedIfSupported ==
    \A d \in NonZeroSizes :
        ( /\ [](process = "running")
          /\ <>[](inner_size = d)
          /\ []<>(Ticked /\ last_tick.recreate_res # "unsupported") )
        => <>[]RenderSize(d)

C4_Witness ==
    /\ last_tick.recreate_res = "ok"
    /\ last_tick.extent_before = <<1, 1>>
    /\ inner_size = <<2, 1>>
    /\ RenderSize(inner_size)
    /\ ~recreate_swapchain

=============================================================================
